---- MODULE Spec2Model ----
(***************************************************************************)
(* Two-stage planning pipeline of Investigacion_Operaciones:               *)
(*   stage (a)  src/src/solve_assignment.py   (PuLP, min-max load)         *)
(*   stage (b)  src/src/solve_schedule_cp.py  (CP-SAT, makespan)           *)
(* Each script is a straight-line program; one action per numbered section *)
(* of the script.  The external solvers are modelled by their contract:    *)
(* any status/solution pair the solver may return for the posted model.    *)
(*                                                                         *)
(* Units: duracion_horas is held in hundredths of an hour (a CSV decimal   *)
(* with two places), deadline in whole hours relative to datetime.now().   *)
(***************************************************************************)
EXTENDS Integers, Sequences, FiniteSets, TLC

(* ---------------------------- bounds ----------------------------------- *)
MaxJobs == 2
MaxAsignaciones == 2

(* ----------------------- program constants ----------------------------- *)
DIAS_HORIZONTE == 7
HORAS_POR_DIA == 8
HORIZONTE_MINUTOS == DIAS_HORIZONTE * HORAS_POR_DIA * 60

(* ----------------------------- helpers --------------------------------- *)
SeqToSet(s) == {s[i] : i \in 1..Len(s)}

MaxOf(S) == CHOOSE m \in S : \A x \in S : x <= m

MinOf2(a, b) == IF a <= b THEN a ELSE b

RECURSIVE SeqsUpTo(_, _)
SeqsUpTo(S, n) ==
    IF n = 0 THEN {<<>>}
    ELSE LET prev == SeqsUpTo(S, n - 1)
         IN  prev \cup {Append(s, x) : s \in {p \in prev : Len(p) = n - 1}, x \in S}

(* ======================================================================= *)
(*                    STAGE (b): solve_schedule_cp.py                      *)
(* ======================================================================= *)

TecnicoIds == {"T1", "T2"}
NoAsignado == "No asignado"

JobsFiles == {"jobs_clean.csv", "tecnicos_clean.csv", "assignment_results.csv"}
JobsColumnsB == {"id_job", "duracion_horas", "skill_requerida", "deadline", "descripcion"}

(* column sets the assignment artifact may carry: as written by stage (a), *)
(* with the alternate spellings, and with the job / technician key absent  *)
AsigColumnSets ==
    { {"job_id", "tecnico_id", "id_tecnico"},
      {"id_job", "Id_tecnico"},
      {"tecnico_id", "id_tecnico"},
      {"job_id", "tecnico_id"} }

(* (duracion_horas in 1/100 h, deadline in hours from now) of a Job row    *)
JobProfiles ==
    { [duracion_horas |-> 500, deadline |-> 200],
      [duracion_horas |-> 300, deadline |-> -1],
      [duracion_horas |-> 1,   deadline |-> 30],
      [duracion_horas |-> 205, deadline |-> 23] }

(* Job tables: rows 1..n, id_job = row number (unique key)                 *)
JobTables ==
    UNION { [1..n -> JobProfiles] : n \in 0..MaxJobs }

JobRow(tbl, i) ==
    [id_job |-> i, duracion_horas |-> tbl[i].duracion_horas, deadline |-> tbl[i].deadline]

AsigRows == [job : 1..MaxJobs, tecnico : TecnicoIds]
AsigTables == SeqsUpTo(AsigRows, MaxAsignaciones)

VARIABLES
    pcB,              \* position in the script
    archivosB,        \* input files that exist
    jobs,             \* Job table (sequence of rows)
    jobsColumns,      \* columns of the Job table
    asignaciones,     \* Assignment artifact (sequence of rows)
    asigColumns,      \* columns of the Assignment artifact
    interval_vars,    \* job id -> interval size (minutes)
    jobs_por_tecnico, \* technician -> sequence of job ids whose interval it holds
    avisos,           \* job ids printed in a "no encontrado" diagnostic
    jobs_procesados,
    jobs_omitidos,
    max_start,        \* job id -> posted deadline bound (only where posted)
    solveCalledB,     \* solver.Solve has been invoked
    statusB,          \* CP-SAT status
    start_val,        \* solver.Value(start_vars[j])
    end_val,          \* solver.Value(end_vars[j])
    schedule,         \* schedule_detailed.csv rows
    escritosB,        \* result files written by this run
    reporteB,         \* message printed for the outcome
    errorB            \* uncaught exception / reported load error

varsB == <<pcB, archivosB, jobs, jobsColumns, asignaciones, asigColumns,
           interval_vars, jobs_por_tecnico, avisos, jobs_procesados,
           jobs_omitidos, max_start, solveCalledB, statusB, start_val,
           end_val, schedule, escritosB, reporteB, errorB>>

VARIABLES
    pcA,              \* position in the script
    archivosA,        \* input files that exist
    columnasA,        \* table name -> columns of that table as read
    jobsA,            \* Job table (sequence of rows)
    tecnicosA,        \* Technician table (sequence of rows)
    q,                \* (id_job, id_tecnico) -> compatible, for the pairs that have a row
    solveCalledA,     \* prob.solve has been invoked
    statusA,          \* pulp.LpStatus[prob.status]
    xval,             \* pulp.value(x[(j, t)]); cargado = FALSE when it is None
    resultados,       \* assignment_results.csv rows
    cargas,           \* tecnicos_carga.csv: technician -> carga_total_horas
    escritosA,        \* result files written by this run
    reporteA,         \* status line printed in section 6
    errorA            \* uncaught exception

varsA == <<pcA, archivosA, columnasA, jobsA, tecnicosA, q, solveCalledA,
           statusA, xval, resultados, cargas, escritosA, reporteA, errorA>>

vars == <<varsA, varsB>>

EmptyFn == [x \in {} |-> 0]

SinValores == [cargado |-> FALSE, x |-> EmptyFn]

\* stage (a) not running
IdleA ==
    /\ pcA = "idle"
    /\ archivosA = {}
    /\ columnasA = EmptyFn
    /\ jobsA = <<>>
    /\ tecnicosA = <<>>
    /\ q = EmptyFn
    /\ solveCalledA = FALSE
    /\ statusA = "none"
    /\ xval = SinValores
    /\ resultados = <<>>
    /\ cargas = EmptyFn
    /\ escritosA = {}
    /\ reporteA = "none"
    /\ errorA = "none"

\* at most one input defect per run: a missing file or a missing Job column
InitB ==
    /\ IdleA
    /\ pcB = "cargar"
    /\ \E d \in {"ninguno"} \cup JobsFiles \cup JobsColumnsB :
          /\ archivosB = JobsFiles \ {d}
          /\ jobsColumns = JobsColumnsB \ {d}
          /\ asigColumns \in IF d = "ninguno" THEN AsigColumnSets
                              ELSE {{"job_id", "tecnico_id", "id_tecnico"}}
    /\ \E tbl \in JobTables : jobs = [i \in DOMAIN tbl |-> JobRow(tbl, i)]
    /\ asignaciones \in AsigTables
    /\ interval_vars = EmptyFn
    /\ jobs_por_tecnico = [t \in TecnicoIds |-> <<>>]
    /\ avisos = <<>>
    /\ jobs_procesados = 0
    /\ jobs_omitidos = 0
    /\ max_start = EmptyFn
    /\ solveCalledB = FALSE
    /\ statusB = "none"
    /\ start_val = EmptyFn
    /\ end_val = EmptyFn
    /\ schedule = <<>>
    /\ escritosB = {}
    /\ reporteB = "none"
    /\ errorB = "none"

(* ---- 1. CARGAR DATOS: FileNotFoundError is caught, reported, exit() ---- *)
CargarDatos ==
    /\ pcB = "cargar"
    /\ IF archivosB # JobsFiles
       THEN /\ pcB' = "exit"
            /\ errorB' = "FileNotFoundError"
       ELSE /\ pcB' = "variables"
            /\ errorB' = errorB
    /\ UNCHANGED varsA
    /\ UNCHANGED <<archivosB, jobs, jobsColumns, asignaciones, asigColumns,
                   interval_vars, jobs_por_tecnico, avisos, jobs_procesados,
                   jobs_omitidos, max_start, solveCalledB, statusB, start_val,
                   end_val, schedule, escritosB, reporteB>>

(* ---- 2.-4. duracion_minutos and the interval variables ----------------- *)
\* jobs['duracion_horas'] * 60, in hundredths of a minute
DuracionMinutos(row) == row.duracion_horas * 60

\* int(row['duracion_minutos']): truncation of a positive real
Duracion(row) == DuracionMinutos(row) \div 100

DefinirVariables ==
    /\ pcB = "variables"
    /\ IF \/ "duracion_horas" \notin jobsColumns
          \/ (Len(jobs) > 0 /\ "id_job" \notin jobsColumns)
       THEN /\ pcB' = "crashed"
            /\ errorB' = "KeyError"
            /\ UNCHANGED interval_vars
       ELSE /\ pcB' = "agrupar"
            /\ interval_vars' = [j \in {jobs[i].id_job : i \in 1..Len(jobs)} |->
                                   Duracion(jobs[CHOOSE i \in 1..Len(jobs) : jobs[i].id_job = j])]
            /\ UNCHANGED errorB
    /\ UNCHANGED varsA
    /\ UNCHANGED <<archivosB, jobs, jobsColumns, asignaciones, asigColumns,
                   jobs_por_tecnico, avisos, jobs_procesados,
                   jobs_omitidos, max_start, solveCalledB, statusB, start_val,
                   end_val, schedule, escritosB, reporteB>>

(* ---- 5. RESTRICCIONES DE ASIGNACION ------------------------------------ *)
columna_tecnico == IF "Id_tecnico" \in asigColumns THEN "Id_tecnico" ELSE "id_tecnico"
columna_job == IF "job_id" \in asigColumns THEN "job_id" ELSE "id_job"

\* variant: a row whose job has no interval is dropped without a diagnostic
RECURSIVE AgruparSilencioso(_, _, _)
AgruparSilencioso(rows, ivars, acc) ==
    IF rows = <<>> THEN acc
    ELSE LET r == Head(rows)
             nxt == IF r.job \in DOMAIN ivars
                    THEN [acc EXCEPT !.jpt[r.tecnico] = Append(@, r.job),
                                     !.procesados = @ + 1]
                    ELSE [acc EXCEPT !.omitidos = @ + 1]
         IN  AgruparSilencioso(Tail(rows), ivars, nxt)

\* the loop over asignaciones.iterrows(), folded left to right
RECURSIVE Agrupar(_, _, _)
Agrupar(rows, ivars, acc) ==
    IF rows = <<>> THEN acc
    ELSE LET r == Head(rows)
             nxt == IF r.job \in DOMAIN ivars
                    THEN [acc EXCEPT !.jpt[r.tecnico] = Append(@, r.job),
                                     !.procesados = @ + 1]
                    ELSE [acc EXCEPT !.avisos = Append(@, r.job),
                                     !.omitidos = @ + 1]
         IN  Agrupar(Tail(rows), ivars, nxt)

AgruparPorTecnico ==
    /\ pcB = "agrupar"
    /\ IF Len(asignaciones) > 0 /\
          (columna_tecnico \notin asigColumns \/ columna_job \notin asigColumns)
       THEN /\ pcB' = "crashed"
            /\ errorB' = "KeyError"
            /\ UNCHANGED <<jobs_por_tecnico, avisos, jobs_procesados, jobs_omitidos>>
       ELSE LET res == Agrupar(asignaciones, interval_vars,
                               [jpt |-> [t \in TecnicoIds |-> <<>>], avisos |-> <<>>,
                                procesados |-> 0, omitidos |-> 0])
            IN  /\ jobs_por_tecnico' = res.jpt
                /\ avisos' = res.avisos
                /\ jobs_procesados' = res.procesados
                /\ jobs_omitidos' = res.omitidos
                /\ pcB' = "ventanas"
                /\ UNCHANGED errorB
    /\ UNCHANGED varsA
    /\ UNCHANGED <<archivosB, jobs, jobsColumns, asignaciones, asigColumns,
                   interval_vars, max_start, solveCalledB, statusB, start_val,
                   end_val, schedule, escritosB, reporteB>>

(* ---- 6. RESTRICCIONES DE VENTANAS TEMPORALES --------------------------- *)
\* (deadline - datetime.now()).days : floor of the difference in days
DiasRestantes(row) == row.deadline \div 24

\* variant: max() taken instead of min()
MaxStartLargest(row) ==
    IF DiasRestantes(row) * HORAS_POR_DIA * 60 >= HORIZONTE_MINUTOS
    THEN DiasRestantes(row) * HORAS_POR_DIA * 60 ELSE HORIZONTE_MINUTOS

MaxStart(row) == MinOf2(DiasRestantes(row) * HORAS_POR_DIA * 60, HORIZONTE_MINUTOS)

\* the jobs for which model.Add(start <= max_start) is posted
ConDeadline(rows) == {i \in 1..Len(rows) : DiasRestantes(rows[i]) >= 0}

VentanasTemporales ==
    /\ pcB = "ventanas"
    /\ IF Len(jobs) > 0 /\ "deadline" \notin jobsColumns
       THEN /\ pcB' = "crashed"
            /\ errorB' = "KeyError"
            /\ UNCHANGED max_start
       ELSE /\ max_start' = [j \in {jobs[i].id_job : i \in ConDeadline(jobs)} |->
                               MaxStart(jobs[CHOOSE i \in 1..Len(jobs) : jobs[i].id_job = j])]
            /\ pcB' = "resolver"
            /\ UNCHANGED errorB
    /\ UNCHANGED varsA
    /\ UNCHANGED <<archivosB, jobs, jobsColumns, asignaciones, asigColumns,
                   interval_vars, jobs_por_tecnico, avisos, jobs_procesados,
                   jobs_omitidos, solveCalledB, statusB, start_val,
                   end_val, schedule, escritosB, reporteB>>

(* ---- 7.-8. objective and solver.Solve(model) --------------------------- *)
RECURSIVE SumaDuraciones(_, _)
SumaDuraciones(ivars, S) ==
    IF S = {} THEN 0
    ELSE LET j == CHOOSE x \in S : TRUE
         IN  ivars[j] + SumaDuraciones(ivars, S \ {j})

\* start values the solver is taken to return: every left-shifted position
\* (a sum of interval sizes), the start of day 2 and the end of the horizon
LateStarts == {HORAS_POR_DIA * 60, HORIZONTE_MINUTOS}

StartCandidates(ivars) ==
    {v \in {SumaDuraciones(ivars, S) : S \in SUBSET DOMAIN ivars} \cup LateStarts :
        v <= HORIZONTE_MINUTOS}

\* variant: the no-overlap constraint is not posted
NoOverlapOmitted(lista, ivars, s) == TRUE

\* model.AddNoOverlap(intervals) over the list held for one technician
NoOverlap(lista, ivars, s) ==
    \A a, b \in 1..Len(lista) :
        a < b => \/ s[lista[a]] + ivars[lista[a]] <= s[lista[b]]
                 \/ s[lista[b]] + ivars[lista[b]] <= s[lista[a]]

\* all constraints posted on the CP model
Factible(ivars, jpt, mstart, s) ==
    /\ \A j \in DOMAIN ivars : s[j] >= 0 /\ s[j] <= HORIZONTE_MINUTOS
    /\ \A j \in DOMAIN ivars : s[j] + ivars[j] >= 0 /\ s[j] + ivars[j] <= HORIZONTE_MINUTOS
    /\ \A t \in DOMAIN jpt : jpt[t] # <<>> => NoOverlap(jpt[t], ivars, s)
    /\ \A j \in DOMAIN mstart : s[j] <= mstart[j]

Soluciones(ivars, jpt, mstart) ==
    {s \in [DOMAIN ivars -> StartCandidates(ivars)] : Factible(ivars, jpt, mstart, s)}

\* makespan == max(end_vars)
Makespan(ivars, s) == MaxOf({s[j] + ivars[j] : j \in DOMAIN ivars})

Optimas(ivars, sols) ==
    {s \in sols : \A o \in sols : Makespan(ivars, s) <= Makespan(ivars, o)}

EndOf(ivars, s) == [j \in DOMAIN ivars |-> s[j] + ivars[j]]

\* what solver.Solve may return for the posted model within the time limit
SolverOutcomesB(ivars, jpt, mstart) ==
    IF DOMAIN ivars = {}
    THEN {[status |-> st, start |-> EmptyFn, end |-> EmptyFn] :
             st \in {"INFEASIBLE", "MODEL_INVALID"}}
    ELSE LET sols == Soluciones(ivars, jpt, mstart)
         IN  {[status |-> "UNKNOWN", start |-> EmptyFn, end |-> EmptyFn]}
             \cup (IF sols = {}
                   THEN {[status |-> "INFEASIBLE", start |-> EmptyFn, end |-> EmptyFn]}
                   ELSE {[status |-> "OPTIMAL", start |-> s, end |-> EndOf(ivars, s)] :
                            s \in Optimas(ivars, sols)}
                        \cup {[status |-> "FEASIBLE", start |-> s, end |-> EndOf(ivars, s)] :
                                 s \in sols})

Resolver ==
    /\ pcB = "resolver"
    /\ solveCalledB' = TRUE
    /\ \E out \in SolverOutcomesB(interval_vars, jobs_por_tecnico, max_start) :
          /\ statusB' = out.status
          /\ start_val' = out.start
          /\ end_val' = out.end
    /\ pcB' = "procesar"
    /\ UNCHANGED varsA
    /\ UNCHANGED <<archivosB, jobs, jobsColumns, asignaciones, asigColumns,
                   interval_vars, jobs_por_tecnico, avisos, jobs_procesados,
                   jobs_omitidos, max_start, schedule, escritosB, reporteB, errorB>>

(* ---- 9.-11. PROCESAR RESULTADOS / GUARDAR ------------------------------ *)
\* asignaciones[asignaciones[columna_job] == job_id].iloc[0][columna_tecnico]
TecnicoDe(asig, j) ==
    IF \E k \in 1..Len(asig) : asig[k].job = j
    THEN asig[CHOOSE k \in 1..Len(asig) :
                 asig[k].job = j /\ \A m \in 1..(k - 1) : asig[m].job # j].tecnico
    ELSE NoAsignado

ScheduleRow(row, asig, sv, ev) ==
    LET start_minutos == sv[row.id_job]
        end_minutos == ev[row.id_job]
    IN  [job_id |-> row.id_job,
         tecnico_id |-> TecnicoDe(asig, row.id_job),
         dia |-> (start_minutos \div (HORAS_POR_DIA * 60)) + 1,
         hora_inicio |-> <<(start_minutos % (HORAS_POR_DIA * 60)) \div 60,
                           start_minutos % 60>>,
         duracion_horas |-> DuracionMinutos(row) \div 60,
         hora_fin |-> <<(end_minutos % (HORAS_POR_DIA * 60)) \div 60,
                        end_minutos % 60>>]

\* the status branch of section 9 and the message it prints
SolucionEncontrada(st) == st = "OPTIMAL" \/ st = "FEASIBLE"

ReporteDe(st) ==
    IF SolucionEncontrada(st) THEN "Solucion encontrada!"
    ELSE "No se encontro solucion factible"

\* a column the result loop reads is absent
FaltaColumnaResultado ==
    /\ Len(jobs) > 0
    /\ \/ columna_job \notin asigColumns
       \/ "descripcion" \notin jobsColumns
       \/ "skill_requerida" \notin jobsColumns
       \/ /\ columna_tecnico \notin asigColumns
          /\ \E i \in 1..Len(jobs) : TecnicoDe(asignaciones, jobs[i].id_job) # NoAsignado

ProcesarResultados ==
    /\ pcB = "procesar"
    /\ reporteB' = ReporteDe(statusB)
    /\ IF SolucionEncontrada(statusB)
       THEN IF FaltaColumnaResultado
            THEN /\ pcB' = "crashed"
                 /\ errorB' = "KeyError"
                 /\ UNCHANGED <<schedule, escritosB>>
            ELSE /\ schedule' = [i \in 1..Len(jobs) |->
                                   ScheduleRow(jobs[i], asignaciones, start_val, end_val)]
                 /\ escritosB' = {"schedule_detailed.csv"}
                 /\ pcB' = "done"
                 /\ UNCHANGED errorB
       ELSE /\ pcB' = "done"
            /\ UNCHANGED <<schedule, escritosB, errorB>>
    /\ UNCHANGED varsA
    /\ UNCHANGED <<archivosB, jobs, jobsColumns, asignaciones, asigColumns,
                   interval_vars, jobs_por_tecnico, avisos, jobs_procesados,
                   jobs_omitidos, max_start, solveCalledB, statusB, start_val,
                   end_val>>

NextB ==
    \/ CargarDatos
    \/ DefinirVariables
    \/ AgruparPorTecnico
    \/ VentanasTemporales
    \/ Resolver
    \/ ProcesarResultados

SpecB == InitB /\ [][NextB]_vars

(* ======================================================================= *)
(*                    STAGE (a): solve_assignment.py                       *)
(* ======================================================================= *)

PathsA == {"jobs", "tecnicos", "habilidades"}

\* columns of the clean tables; required_cols names a subset of them
ColumnasLimpias ==
    [jobs |-> {"id_job", "duracion_horas", "skill_requerida", "deadline", "descripcion"},
     tecnicos |-> {"id_tecnico", "capacidad_diaria_h"},
     habilidades |-> {"id_job", "id_tecnico", "compatible"}]

required_cols ==
    [jobs |-> {"id_job", "duracion_horas", "skill_requerida"},
     tecnicos |-> {"id_tecnico", "capacidad_diaria_h"},
     habilidades |-> {"id_job", "id_tecnico", "compatible"}]

\* duracion_horas and capacidad_diaria_h in 1/100 h
DuracionesA == {400, 800}
CapacidadesDiarias == {100, 800}

T == <<"T1", "T2">>

JobTablesA ==
    UNION { [1..n -> [id_job : {0}, duracion_horas : DuracionesA]] : n \in 0..MaxJobs }

TecnicoTables ==
    { [k \in 1..Len(T) |-> [id_tecnico |-> T[k], capacidad_diaria_h |-> c[k]]] :
         c \in [1..Len(T) -> CapacidadesDiarias] }

\* Compatibility tables: any subset of the (job, technician) pairs has a row
Pares == (1..MaxJobs) \X TecnicoIds

Habilidades ==
    { [pr \in {x \in Pares : f[x] # -1} |-> f[pr]] : f \in [Pares -> {-1, 0, 1}] }

\* stage (b) not running
IdleB ==
    /\ pcB = "idle"
    /\ archivosB = {}
    /\ jobs = <<>>
    /\ jobsColumns = {}
    /\ asignaciones = <<>>
    /\ asigColumns = {}
    /\ interval_vars = EmptyFn
    /\ jobs_por_tecnico = [t \in TecnicoIds |-> <<>>]
    /\ avisos = <<>>
    /\ jobs_procesados = 0
    /\ jobs_omitidos = 0
    /\ max_start = EmptyFn
    /\ solveCalledB = FALSE
    /\ statusB = "none"
    /\ start_val = EmptyFn
    /\ end_val = EmptyFn
    /\ schedule = <<>>
    /\ escritosB = {}
    /\ reporteB = "none"
    /\ errorB = "none"

\* at most one input defect per run: a missing file, a missing column, or
\* the technician key spelled Id_tecnico
DefectosA ==
    {<<"ninguno", "ninguno">>}
    \cup {<<"archivo", f>> : f \in PathsA}
    \cup {<<tb, c>> : tb \in PathsA, c \in {"id_job", "duracion_horas", "skill_requerida",
                                             "deadline", "descripcion", "id_tecnico",
                                             "capacidad_diaria_h", "compatible",
                                             "Id_tecnico"}}

ColumnasCon(d) ==
    [tb \in PathsA |->
        IF d[1] # tb THEN ColumnasLimpias[tb]
        ELSE IF d[2] = "Id_tecnico"
             THEN (ColumnasLimpias[tb] \ {"id_tecnico"}) \cup {"Id_tecnico"}
             ELSE ColumnasLimpias[tb] \ {d[2]}]

InitA ==
    /\ IdleB
    /\ pcA = "archivos"
    /\ \E d \in {x \in DefectosA :
                   x[1] \in PathsA =>
                      \/ x[2] \in ColumnasLimpias[x[1]]
                      \/ (x[2] = "Id_tecnico" /\ x[1] = "tecnicos")} :
          /\ archivosA = IF d[1] = "archivo" THEN PathsA \ {d[2]} ELSE PathsA
          /\ columnasA = ColumnasCon(d)
    /\ \E tbl \in JobTablesA :
          jobsA = [i \in DOMAIN tbl |-> [id_job |-> i, duracion_horas |-> tbl[i].duracion_horas]]
    /\ tecnicosA \in TecnicoTables
    /\ q \in Habilidades
    /\ solveCalledA = FALSE
    /\ statusA = "none"
    /\ xval = SinValores
    /\ resultados = <<>>
    /\ cargas = EmptyFn
    /\ escritosA = {}
    /\ reporteA = "none"
    /\ errorA = "none"

(* ---- 1. existence of the three input files ----------------------------- *)
VerificarArchivos ==
    /\ pcA = "archivos"
    /\ IF archivosA # PathsA
       THEN /\ pcA' = "crashed"
            /\ errorA' = "FileNotFoundError"
       ELSE /\ pcA' = "columnas"
            /\ UNCHANGED errorA
    /\ UNCHANGED <<archivosA, columnasA, jobsA, tecnicosA, q, solveCalledA,
                   statusA, xval, resultados, cargas, escritosA, reporteA>>
    /\ UNCHANGED varsB

(* ---- column normalisation and validation of required_cols -------------- *)
\* tecnicos.rename(columns={'Id_tecnico': 'id_tecnico'})
Normalizar(cols) ==
    [cols EXCEPT !.tecnicos = IF "Id_tecnico" \in @
                              THEN (@ \ {"Id_tecnico"}) \cup {"id_tecnico"}
                              ELSE @]

Faltantes(cols) == {tb \in PathsA : required_cols[tb] \ cols[tb] # {}}

ValidarColumnas ==
    /\ pcA = "columnas"
    /\ columnasA' = Normalizar(columnasA)
    /\ IF Faltantes(columnasA') # {}
       THEN /\ pcA' = "crashed"
            /\ errorA' = "ValueError"
       ELSE /\ pcA' = "modelo"
            /\ UNCHANGED errorA
    /\ UNCHANGED <<archivosA, jobsA, tecnicosA, q, solveCalledA,
                   statusA, xval, resultados, cargas, escritosA, reporteA>>
    /\ UNCHANGED varsB

(* ---- 2.-4. parameters, variables and constraints ----------------------- *)
J == [i \in 1..Len(jobsA) |-> jobsA[i].id_job]

p(j) == jobsA[CHOOSE i \in 1..Len(jobsA) : jobsA[i].id_job = j].duracion_horas

\* H: weekly capacity, capacidad_diaria_h * 7
H(t) == tecnicosA[CHOOSE k \in 1..Len(tecnicosA) : tecnicosA[k].id_tecnico = t].capacidad_diaria_h * 7

XKeys == SeqToSet(J) \X SeqToSet(T)

\* building "Compatibilidad_{j}_{t}" looks up x[(j, t)] for every key of q
CrearModelo ==
    /\ pcA = "modelo"
    /\ IF DOMAIN q \subseteq XKeys
       THEN /\ pcA' = "resolver"
            /\ UNCHANGED errorA
       ELSE /\ pcA' = "crashed"
            /\ errorA' = "KeyError"
    /\ UNCHANGED <<archivosA, columnasA, jobsA, tecnicosA, q, solveCalledA,
                   statusA, xval, resultados, cargas, escritosA, reporteA>>
    /\ UNCHANGED varsB

RECURSIVE Carga(_, _, _)
\* sum of p[j] * x[(j, t)] over a set of jobs
Carga(x, t, S) ==
    IF S = {} THEN 0
    ELSE LET j == CHOOSE e \in S : TRUE
         IN  p(j) * x[<<j, t>>] + Carga(x, t, S \ {j})

\* variant: "at most one technician per job"
AsignacionAlMasUna(x) ==
    \A j \in SeqToSet(J) : Cardinality({t \in SeqToSet(T) : x[<<j, t>>] = 1}) <= 1

\* 4.1 "Asignacion_Unica_{j}"
AsignacionUnica(x) ==
    \A j \in SeqToSet(J) : Cardinality({t \in SeqToSet(T) : x[<<j, t>>] = 1}) = 1

\* 4.2 "Compatibilidad_{j}_{t}", posted for the keys of q
Compatibilidad(x) == \A pr \in DOMAIN q : x[pr] <= q[pr]

\* 4.4 "Capacidad_{t}"
Capacidad(x) == \A t \in SeqToSet(T) : Carga(x, t, SeqToSet(J)) <= H(t)

Binarias == [XKeys -> {0, 1}]

FactiblesA == {x \in Binarias : AsignacionUnica(x) /\ Compatibilidad(x) /\ Capacidad(x)}

\* what prob.solve may leave in prob.status and in the variables: a solution
\* of the posted constraints (the optimum, or the incumbent when the time
\* limit stops the search), no values at all, or (for an infeasible problem)
\* whatever values the solver stopped with
SolverOutcomesA ==
    LET fs == FactiblesA
    IN  {[status |-> "Not Solved", x |-> SinValores]}
        \cup (IF fs = {}
              THEN {[status |-> "Infeasible", x |-> SinValores]}
                   \cup {[status |-> "Infeasible", x |-> [cargado |-> TRUE, x |-> x]] :
                            x \in Binarias}
              ELSE {[status |-> "Optimal", x |-> [cargado |-> TRUE, x |-> x]] : x \in fs})

ResolverA ==
    /\ pcA = "resolver"
    /\ solveCalledA' = TRUE
    /\ \E out \in SolverOutcomesA :
          /\ statusA' = out.status
          /\ xval' = out.x
    /\ pcA' = "analizar"
    /\ UNCHANGED <<archivosA, columnasA, jobsA, tecnicosA, q,
                   resultados, cargas, escritosA, reporteA, errorA>>
    /\ UNCHANGED varsB

(* ---- 6. status line; formatting pulp.value(L) fails when it is None ---- *)
AnalizarResultados ==
    /\ pcA = "analizar"
    /\ reporteA' = statusA
    /\ IF ~xval.cargado
       THEN /\ pcA' = "crashed"
            /\ errorA' = "TypeError"
       ELSE /\ pcA' = "guardar"
            /\ UNCHANGED errorA
    /\ UNCHANGED <<archivosA, columnasA, jobsA, tecnicosA, q, solveCalledA,
                   statusA, xval, resultados, cargas, escritosA>>
    /\ UNCHANGED varsB

(* ---- 7.-9. result rows, loads, merge, CSV files, log ------------------- *)
RECURSIVE FilasDe(_, _, _)
\* inner loop "for j in J" for one technician
FilasDe(x, t, js) ==
    IF js = <<>> THEN <<>>
    ELSE (IF x[<<Head(js), t>>] = 1
          THEN <<[job_id |-> Head(js), tecnico_id |-> t, duracion_horas |-> p(Head(js))]>>
          ELSE <<>>) \o FilasDe(x, t, Tail(js))

RECURSIVE Filas(_, _)
\* outer loop "for t in T"
Filas(x, ts) ==
    IF ts = <<>> THEN <<>>
    ELSE FilasDe(x, Head(ts), J) \o Filas(x, Tail(ts))

RECURSIVE SumaFilas(_)
SumaFilas(rows) ==
    IF rows = <<>> THEN 0 ELSE Head(rows).duracion_horas + SumaFilas(Tail(rows))

\* cargas_tecnicos[t] = carga_actual
CargasTecnicos(x) == [t \in SeqToSet(T) |-> SumaFilas(FilasDe(x, t, J))]

GuardarAsignaciones ==
    /\ pcA = "guardar"
    /\ LET filas == Filas(xval.x, T)
       IN  IF filas = <<>>
           THEN \* merge on 'tecnico_id' of a frame without columns
                /\ pcA' = "crashed"
                /\ errorA' = "KeyError"
                /\ UNCHANGED <<resultados, cargas, escritosA>>
           ELSE /\ resultados' = filas
                /\ cargas' = CargasTecnicos(xval.x)
                /\ escritosA' = {"assignment_results.csv", "tecnicos_carga.csv",
                                 "ejecucion_log.txt"}
                /\ pcA' = "done"
                /\ UNCHANGED errorA
    /\ UNCHANGED <<archivosA, columnasA, jobsA, tecnicosA, q, solveCalledA,
                   statusA, xval, reporteA>>
    /\ UNCHANGED varsB

NextA ==
    \/ VerificarArchivos
    \/ ValidarColumnas
    \/ CrearModelo
    \/ ResolverA
    \/ AnalizarResultados
    \/ GuardarAsignaciones

SpecA == InitA /\ [][NextA]_vars

(* ======================================================================= *)
(*                              PROPERTIES                                 *)
(* ======================================================================= *)

JobIdsB == {jobs[i].id_job : i \in 1..Len(jobs)}
AsigJobIds == {asignaciones[k].job : k \in 1..Len(asignaciones)}
ScheduleWritten == "schedule_detailed.csv" \in escritosB
AssignmentWritten == "assignment_results.csv" \in escritosA
GroupingDone == pcB \in {"ventanas", "resolver", "procesar", "done"} \/ solveCalledB

\* [s1, e1) and [s2, e2) share no minute
Disjoint(s1, e1, s2, e2) == e1 <= s2 \/ e2 <= s1 \/ s1 >= e1 \/ s2 >= e2

(* C1: every row of a solved stage (a) assignment pairs a job with a       *)
(* technician for which the Compatibility table holds a row with           *)
(* compatible = 1; a pair without a row counts as incompatible.            *)
C1_OnlyCompatiblePairs ==
    (AssignmentWritten /\ statusA = "Optimal") =>
        \A k \in 1..Len(resultados) :
            LET pr == <<resultados[k].job_id, resultados[k].tecnico_id>>
            IN  pr \in DOMAIN q /\ q[pr] = 1

(* C2: when stage (a) is infeasible the run reports the Infeasible status  *)
(* and writes neither the assignment table nor the load table.             *)
C2_InfeasibleWritesNothing ==
    statusA = "Infeasible" =>
        /\ escritosA \cap {"assignment_results.csv", "tecnicos_carga.csv"} = {}
        /\ pcA \in {"guardar", "done", "crashed"} => reporteA = "Infeasible"

C5_StatusesReportedApart ==
    pcB \in {"done", "crashed"} =>
        /\ statusB = "FEASIBLE" => reporteB # ReporteDe("OPTIMAL")
        /\ statusB = "INFEASIBLE" =>
              (reporteB # ReporteDe("UNKNOWN") /\ reporteB # ReporteDe("MODEL_INVALID"))

(* C6: in every written schedule end = start + duracion_horas * 60 minutes *)
(* exactly, for the duration the row reports (compared in 1/100 minute).   *)
C6_EndIsStartPlusDuration ==
    ScheduleWritten =>
        \A k \in 1..Len(schedule) :
            end_val[schedule[k].job_id] * 100 =
                start_val[schedule[k].job_id] * 100 + schedule[k].duracion_horas * 60

(* C7: deadline policy.  A job with day offset d >= 0 starts no later than *)
(* min(d * H * 60, horizon) in every written schedule; a job with d < 0    *)
(* gets no deadline bound, has a row in every written schedule, and a      *)
(* model in which no job has d >= 0 and no technician holds two intervals  *)
(* is never reported infeasible.                                           *)
C7_DeadlinePolicy ==
    /\ ScheduleWritten =>
          \A i \in 1..Len(jobs) :
              LET d == jobs[i].deadline \div 24
                  off == d * HORAS_POR_DIA * 60
              IN  /\ \E k \in 1..Len(schedule) : schedule[k].job_id = jobs[i].id_job
                  /\ d >= 0 =>
                        /\ start_val[jobs[i].id_job] <= off
                        /\ start_val[jobs[i].id_job] <= HORIZONTE_MINUTOS
    /\ pcB \in {"resolver", "procesar", "done"} =>
          \A i \in 1..Len(jobs) :
              (jobs[i].deadline \div 24 < 0) => jobs[i].id_job \notin DOMAIN max_start
    /\ (/\ solveCalledB
        /\ Len(jobs) > 0
        /\ \A i \in 1..Len(jobs) : jobs[i].deadline \div 24 < 0
        /\ \A t \in TecnicoIds : Len(jobs_por_tecnico[t]) <= 1) =>
          statusB # "INFEASIBLE"

\* a written schedule holding a past-deadline job that starts after minute 0
\* next to a job whose deadline bound applies
C7_Witness ==
    /\ ScheduleWritten
    /\ \E i \in 1..Len(jobs) :
          jobs[i].deadline \div 24 < 0 /\ start_val[jobs[i].id_job] > 0
    /\ \E i \in 1..Len(jobs) :
          /\ jobs[i].deadline \div 24 >= 0
          /\ (jobs[i].deadline \div 24) * HORAS_POR_DIA * 60 < HORIZONTE_MINUTOS

(* C8: a missing input file or column ends the run before the solver is    *)
(* invoked: no run that has called the solver fails on a missing file or   *)
(* column.                                                                 *)
C8_MissingInputFailsBeforeSolve ==
    /\ errorB \in {"FileNotFoundError", "KeyError"} => ~solveCalledB
    /\ errorA \in {"FileNotFoundError", "ValueError"} => ~solveCalledA

(* C9: in every solved stage (a) assignment each job id of the Job table   *)
(* is in exactly one result row, every row is a job of the table, and the  *)
(* per-technician loads are the sums over a partition of the job set.      *)
C9_EveryJobExactlyOnce ==
    (AssignmentWritten /\ statusA = "Optimal") =>
        /\ \A i \in 1..Len(jobsA) :
              Cardinality({k \in 1..Len(resultados) :
                              resultados[k].job_id = jobsA[i].id_job}) = 1
        /\ Len(resultados) = Len(jobsA)
        /\ \A t \in DOMAIN cargas :
              cargas[t] = SumaFilas(SelectSeq(resultados, LAMBDA r : r.tecnico_id = t))
        /\ \A k \in 1..Len(resultados) : resultados[k].tecnico_id \in DOMAIN cargas

\* a solved assignment of at least two jobs that uses both technicians
C9_Witness ==
    /\ AssignmentWritten
    /\ statusA = "Optimal"
    /\ Len(jobsA) >= 2
    /\ \A t \in SeqToSet(T) : \E k \in 1..Len(resultados) : resultados[k].tecnico_id = t

(* C10: every schedule row presents the solved offsets faithfully inside   *)
(* the D-day x H-hour horizon: 1 <= dia <= D, hora_inicio HH:MM gives back *)
(* start with HH < H, hora_fin read on day dia gives back end, and         *)
(* hora_fin is not earlier than hora_inicio.                               *)
C10_CalendarPresentationFaithful ==
    ScheduleWritten =>
        \A k \in 1..Len(schedule) :
            LET r == schedule[k]
                base == (r.dia - 1) * HORAS_POR_DIA * 60
            IN  /\ 1 <= r.dia /\ r.dia <= DIAS_HORIZONTE
                /\ r.hora_inicio[1] < HORAS_POR_DIA
                /\ start_val[r.job_id] = base + r.hora_inicio[1] * 60 + r.hora_inicio[2]
                /\ end_val[r.job_id] = base + r.hora_fin[1] * 60 + r.hora_fin[2]
                /\ r.hora_fin[1] * 60 + r.hora_fin[2] >=
                      r.hora_inicio[1] * 60 + r.hora_inicio[2]

====
